---- MODULE Spec2Model ----
(***************************************************************************)
(* LinkMind "RICO Act" audit engine (HuaweiRTNAdapter.py).                 *)
(*                                                                         *)
(* One audit = TheGodfather.ingest_and_audit(raw_log).  Every call of a    *)
(* DatabaseManager method opens its own sqlite connection and commits on   *)
(* leaving the `with` block, so each store operation is one atomic step    *)
(* and the steps of two audits may interleave.  Dates are day numbers;     *)
(* throughput is kept in tenths of a Mbps; money is kept in whole units.   *)
(***************************************************************************)
EXTENDS Integers, Sequences, FiniteSets, TLC

\* ---------------------------------------------------------------- CONFIG
PROBATION_DAYS == 15
\* SAFETY_MARGIN 1.2 = SAFETY_MARGIN_NUM / SAFETY_MARGIN_DEN
SAFETY_MARGIN_NUM == 12
SAFETY_MARGIN_DEN == 10
COST_LICENSE_MBPS == 10
COST_BW_MHZ == 20
ZOMBIE_SAVING == 50
BW_WASTED == 28
BW_TRAP == 56
LICENSE_FLOOR == 50
\* throughput thresholds, in tenths of a Mbps (50 and 1.0)
BW_THROUGHPUT_LIMIT == 500
ZOMBIE_THROUGHPUT_LIMIT == 10
\* fixed point scale of throughput values
Scale == 10

\* ---------------------------------------------------------------- bounds
\* audits invoked by the single caller
MaxAudits == 3
\* audits invoked by concurrent callers
MaxConcAudits == 2

\* the audit invocations that may be in flight
Procs == {"a1", "a2"}

\* the dates on which the caller invokes audits
Days == {0, 1, PROBATION_DAYS, PROBATION_DAYS + 1}

\* ------------------------------------------------------- text and parsing
\* A captured regex group is a tuple of characters; NoMatch is a failed search.
NoMatch == << "<nomatch>" >>
UNKNOWN == << "U", "N", "K", "N", "O", "W", "N" >>

Digits == {"0", "1", "2", "3", "4", "5", "6", "7", "8", "9"}

DigitVal(c) ==
    CASE c = "0" -> 0 [] c = "1" -> 1 [] c = "2" -> 2 [] c = "3" -> 3
      [] c = "4" -> 4 [] c = "5" -> 5 [] c = "6" -> 6 [] c = "7" -> 7
      [] c = "8" -> 8 [] c = "9" -> 9

DigitChar(n) ==
    CASE n = 0 -> "0" [] n = 1 -> "1" [] n = 2 -> "2" [] n = 3 -> "3"
      [] n = 4 -> "4" [] n = 5 -> "5" [] n = 6 -> "6" [] n = 7 -> "7"
      [] n = 8 -> "8" [] n = 9 -> "9"

\* int(s) accepts digits with single underscores between digits
IsIntLiteral(tok) ==
    /\ Len(tok) > 0
    /\ \A i \in 1..Len(tok) : tok[i] \in Digits \cup {"_"}
    /\ tok[1] \in Digits
    /\ tok[Len(tok)] \in Digits
    /\ \A i \in 1..(Len(tok) - 1) : ~(tok[i] = "_" /\ tok[i + 1] = "_")

RECURSIVE IntValue(_)
IntValue(tok) ==
    IF Len(tok) = 0 THEN 0
    ELSE LET init == SubSeq(tok, 1, Len(tok) - 1)
             c == tok[Len(tok)]
         IN  IF c = "_" THEN IntValue(init)
             ELSE IntValue(init) * 10 + DigitVal(c)

\* str(n) for n >= 0, as sqlite stores an integer bound to a TEXT column
RECURSIVE IntToText(_)
IntToText(n) ==
    IF n < 10 THEN << DigitChar(n) >>
    ELSE Append(IntToText(n \div 10), DigitChar(n % 10))

\* float(s) for a group of [\d.]+ : at most one dot and at least one digit
DotCount(tok) == Cardinality({i \in 1..Len(tok) : tok[i] = "."})
DigitCount(tok) == Cardinality({i \in 1..Len(tok) : tok[i] \in Digits})

IsFloatLiteral(tok) ==
    /\ \A i \in 1..Len(tok) : tok[i] \in Digits \cup {"."}
    /\ DotCount(tok) <= 1
    /\ DigitCount(tok) >= 1

DotPos(tok) ==
    IF DotCount(tok) = 0 THEN Len(tok) + 1
    ELSE CHOOSE i \in 1..Len(tok) : tok[i] = "."

\* value of a float literal with at most one fractional digit, times Scale
FloatValue(tok) ==
    LET d == DotPos(tok)
        whole == SubSeq(tok, 1, d - 1)
        frac == SubSeq(tok, d + 1, Len(tok))
    IN  IntValue(whole) * Scale + (IF Len(frac) = 0 THEN 0 ELSE DigitVal(frac[1]))

\* safe_extract(pattern, text, default, return_type): `group` is what the
\* pattern captured.  Only return_type float takes the float branch; every
\* other return_type (int and str alike) goes through int().
safe_extract(group, default, return_type) ==
    IF group = NoMatch THEN default
    ELSE IF return_type = "float"
         THEN IF IsFloatLiteral(group) THEN FloatValue(group) ELSE default
         ELSE IF IsIntLiteral(group) THEN IntValue(group) ELSE default

\* the id comes back from safe_extract as an int or as the default string;
\* either way it is bound to the TEXT column link_id and printed as text
safe_extract_id(group) ==
    IF group = NoMatch THEN UNKNOWN
    ELSE IF IsIntLiteral(group) THEN IntToText(IntValue(group)) ELSE UNKNOWN

detect_vendor(raw) == IF raw.signature THEN "Huawei" ELSE "Unknown"

\* variant of the lookup that finds an adapter for every vendor name
adapter_any(vendor_name) == TRUE

\* self.adapters.get(vendor_name) with self.adapters = {"Huawei": HuaweiAdapter()}
adapter_registered(vendor_name) == vendor_name = "Huawei"

\* HuaweiAdapter.parse raises when the status label is present without a value
parse_raises(raw) == raw.status_label /\ raw.status = NoMatch

parse(raw) ==
    [id |-> safe_extract_id(raw.id),
     license_reserved |-> safe_extract(raw.license, 0, "int"),
     throughput |-> safe_extract(raw.throughput, 0, "float"),
     bandwidth |-> safe_extract(raw.bandwidth, 0, "int"),
     status |-> IF raw.status_label THEN raw.status ELSE << "D", "O", "W", "N" >>]

UP == << "U", "P" >>

\* variant that rounds the required license up
needed_license_ceil(throughput) ==
    (throughput * SAFETY_MARGIN_NUM + Scale * SAFETY_MARGIN_DEN - 1)
        \div (Scale * SAFETY_MARGIN_DEN)

\* int(throughput * SAFETY_MARGIN)
needed_license(throughput) ==
    (throughput * SAFETY_MARGIN_NUM) \div (Scale * SAFETY_MARGIN_DEN)

NodeData(raw) ==
    LET data == parse(raw)
    IN  [id |-> data.id, vendor |-> detect_vendor(raw),
         bandwidth |-> data.bandwidth, throughput |-> data.throughput,
         license_reserved |-> data.license_reserved,
         license_actual |-> needed_license(data.throughput),
         admin_status |-> data.status]

\* ------------------------------------------------------------ the judge
Offense(code, wasted, val) ==
    [code |-> code, wasted_qty |-> wasted, saving_value |-> val]

LicenseCrime(node) ==
    /\ 2 * node.license_reserved > 3 * node.license_actual
    /\ node.license_reserved > LICENSE_FLOOR

BwCrime(node) ==
    node.bandwidth = BW_TRAP /\ node.throughput < BW_THROUGHPUT_LIMIT

ZombieCrime(node) ==
    node.admin_status = UP /\ node.throughput < ZOMBIE_THROUGHPUT_LIMIT

\* variant of the judge that stops at the first crime it finds
judge_first_match(node) ==
    IF LicenseCrime(node)
      THEN << Offense("LICENSE", node.license_reserved - node.license_actual,
                      (node.license_reserved - node.license_actual) * COST_LICENSE_MBPS) >>
    ELSE IF BwCrime(node)
      THEN << Offense("BW", BW_WASTED, BW_WASTED * COST_BW_MHZ) >>
    ELSE IF ZombieCrime(node)
      THEN << Offense("ZOMBIE", 1, ZOMBIE_SAVING) >>
    ELSE << >>

\* the offenses list after the three independent checks
judge_offenses(node) ==
    (IF LicenseCrime(node)
       THEN << Offense("LICENSE", node.license_reserved - node.license_actual,
                       (node.license_reserved - node.license_actual) * COST_LICENSE_MBPS) >>
       ELSE << >>)
    \o (IF BwCrime(node)
          THEN << Offense("BW", BW_WASTED, BW_WASTED * COST_BW_MHZ) >>
          ELSE << >>)
    \o (IF ZombieCrime(node)
          THEN << Offense("ZOMBIE", 1, ZOMBIE_SAVING) >>
          ELSE << >>)

\* variant of the accumulation that leaves the zombie saving out
judge_total_no_zombie(node) ==
    (IF LicenseCrime(node)
       THEN (node.license_reserved - node.license_actual) * COST_LICENSE_MBPS ELSE 0)
    + (IF BwCrime(node) THEN BW_WASTED * COST_BW_MHZ ELSE 0)

\* total_saving: 0.0, then += val in each branch that appends an offense
judge_total(node) ==
    (IF LicenseCrime(node)
       THEN (node.license_reserved - node.license_actual) * COST_LICENSE_MBPS ELSE 0)
    + (IF BwCrime(node) THEN BW_WASTED * COST_BW_MHZ ELSE 0)
    + (IF ZombieCrime(node) THEN ZOMBIE_SAVING ELSE 0)

\* variant of the status that needs more than one offense
judge_status_plural(offenses) ==
    IF Len(offenses) > 1 THEN "Guilty" ELSE "Innocent"

\* status = "Guilty" if offenses else "Innocent"
judge_status(offenses) ==
    IF offenses # << >> THEN "Guilty" ELSE "Innocent"

judge_concurrently(node) ==
    [status |-> judge_status(judge_offenses(node)),
     offenses |-> judge_offenses(node),
     total_savings |-> judge_total(node)]

\* variant of the summary that keeps the first code only
crimes_summary_first(offs) ==
    IF offs = << >> THEN "" ELSE offs[1].code

\* ",".join([o.code for o in verdict.offenses])
RECURSIVE crimes_summary(_)
crimes_summary(offs) ==
    IF offs = << >> THEN ""
    ELSE IF Len(offs) = 1 THEN offs[1].code
    ELSE offs[1].code \o "," \o crimes_summary(Tail(offs))

\* ---------------------------------------------------------- generate_fix
\* a command string, by its parts; EmptyCommand is ""
Command(text, link_id, value) == [text |-> text, link_id |-> link_id, value |-> value]
EmptyCommand == Command("", << >>, 0)

\* HuaweiAdapter.generate_fix
generate_fix(link_id, value, fix_type) ==
    IF fix_type = "LICENSE" THEN Command("MOD MWLICENSE: CAP", link_id, value)
    ELSE IF fix_type = "BW" THEN Command("MOD MWPORT: AM=ENABLE, BW", link_id, value)
    ELSE IF fix_type = "ZOMBIE" THEN Command("MOD MWPORT: ADMIN=DOWN", link_id, 0)
    ELSE EmptyCommand

\* the adapter argument of _execute_rico_act: the registered HuaweiAdapter,
\* or another VendorAdapter, one whose generate_fix returns "" for the offense
Adapters == {"Huawei", "Silent"}

adapter_generate_fix(adapter, link_id, value, fix_type) ==
    IF adapter = "Huawei" THEN generate_fix(link_id, value, fix_type)
    ELSE EmptyCommand

\* the value _execute_rico_act passes for each offense code
fix_value(code, license_actual) ==
    IF code = "LICENSE" THEN license_actual
    ELSE IF code = "BW" THEN BW_WASTED
    ELSE 0

\* ------------------------------------------------------ DatabaseManager
\* probation_list: link_id (PRIMARY KEY) -> row; financial_ledger: rows in
\* insertion order

\* SELECT start_date, strike_count ... fetchone(): << >> stands for None
check_probation(tbl, link_id) ==
    IF link_id \in DOMAIN tbl
      THEN << tbl[link_id].start_date, tbl[link_id].strike_count >>
      ELSE << >>

\* INSERT OR IGNORE INTO probation_list VALUES (?, ?, today, today, 1)
add_suspect(tbl, link_id, summary, day) ==
    IF link_id \in DOMAIN tbl THEN tbl
    ELSE tbl @@ (link_id :> [offense_summary |-> summary, start_date |-> day,
                             last_seen |-> day, strike_count |-> 1])

\* variants of the UPDATE: without its WHERE clause, and setting start_date
update_suspect_all(tbl, link_id, day) ==
    [k \in DOMAIN tbl |->
        [tbl[k] EXCEPT !.last_seen = day, !.strike_count = @ + 1]]

update_suspect_restart(tbl, link_id, day) ==
    [k \in DOMAIN tbl |->
        IF k = link_id
          THEN [tbl[k] EXCEPT !.start_date = day, !.last_seen = day,
                              !.strike_count = @ + 1]
          ELSE tbl[k]]

\* UPDATE probation_list SET last_seen=?, strike_count=strike_count+1 WHERE link_id=?
update_suspect(tbl, link_id, day) ==
    [k \in DOMAIN tbl |->
        IF k = link_id
          THEN [tbl[k] EXCEPT !.last_seen = day, !.strike_count = @ + 1]
          ELSE tbl[k]]

\* variant of the DELETE that matches no row
release_suspect_none(tbl, link_id) == tbl

\* DELETE FROM probation_list WHERE link_id=?
release_suspect(tbl, link_id) ==
    [k \in DOMAIN tbl \ {link_id} |-> tbl[k]]

\* INSERT INTO financial_ledger (date, link_id, action_taken, recovered_value)
record_profit(led, day, link_id, action, value) ==
    Append(led, [date |-> day, link_id |-> link_id,
                 action_taken |-> action, recovered_value |-> value])

\* a stored start_date that is not in ISO format, and the ValueError that
\* date.fromisoformat raises for it
CorruptDate == -1
fromisoformat_raises(start_date) == start_date = CorruptDate

\* variants of the threshold: doubled, strict, and one day early
matured_late(days_in_jail) == days_in_jail >= 2 * PROBATION_DAYS
matured_strict(days_in_jail) == days_in_jail > PROBATION_DAYS
matured_early(days_in_jail) == days_in_jail >= PROBATION_DAYS - 1

\* days_in_jail >= CONFIG['PROBATION_DAYS']
matured(days_in_jail) == days_in_jail >= PROBATION_DAYS

\* ------------------------------------------------------------- the inputs
IdGroups ==
    {<< "7" >>, << "L", "K", "_", "A" >>, << "L", "K", "_", "B" >>}
LicenseGroups == {NoMatch, << "4", "0", "0" >>}
ThroughputGroups == {<< "0", ".", "5" >>, << "5", "0", "0" >>}
BandwidthGroups == {<< "5", "6" >>}
StatusGroups == {NoMatch, UP, << "D", "O", "W", "N" >>}

\* what the patterns of detect_vendor and HuaweiAdapter.parse find in a text:
\* the license pattern contains the vendor signature, the status pattern
\* contains the status label
RawLogs ==
    {raw \in [signature : BOOLEAN, id : IdGroups, license : LicenseGroups,
              throughput : ThroughputGroups, bandwidth : BandwidthGroups,
              status_label : BOOLEAN, status : StatusGroups] :
        /\ raw.license # NoMatch => raw.signature
        /\ raw.status # NoMatch => raw.status_label}

\* ------------------------------------------------------------- the state
VARIABLES
    probation,   \* table probation_list
    ledger,      \* table financial_ledger
    today,       \* date.today()
    audit,       \* per invocation: position and locals of ingest_and_audit
    entry,       \* per invocation: the store and the date when it was invoked
    nAudits,     \* number of invocations so far
    probe        \* a text taken through detect, parse and judge on its own

vars == << probation, ledger, today, audit, entry, nAudits, probe >>

IdleAudit ==
    [pc |-> "idle", vendor |-> "none", adapter |-> "none", id |-> UNKNOWN,
     license_actual |-> 0, status |-> "none",
     offenses |-> << >>, total_savings |-> 0, record |-> << >>,
     days_in_jail |-> 0, i |-> 0, scripts |-> << >>, result |-> "none"]

NoEntry == [probation |-> << >>, ledger |-> << >>, today |-> 0]

NoProbe == [stage |-> "none"]

Init ==
    /\ probation = << >>
    /\ ledger = << >>
    /\ today = 0
    /\ audit = [p \in Procs |-> IdleAudit]
    /\ entry = [p \in Procs |-> NoEntry]
    /\ nAudits = 0
    /\ probe = NoProbe

Quiet == \A q \in Procs : audit[q].pc = "idle"

\* ------------------------------------------------- TheGodfather, by steps
\* position after record = self.db.check_probation(node.id) in _process_verdict
AfterCheck(status, record) ==
    IF status = "Innocent"
      THEN (IF record # << >> THEN "release" ELSE "done")
      ELSE (IF record = << >> THEN "add" ELSE "update")

\* ingest_and_audit: detect, parse, judge, and _process_verdict up to and
\* including its first store operation, the read of the probation record
IngestBody(p, raw) ==
    /\ audit[p].pc = "idle"
    /\ nAudits < MaxAudits
    /\ nAudits' = nAudits + 1
    /\ entry' = [entry EXCEPT ![p] =
                    [probation |-> probation, ledger |-> ledger, today |-> today]]
    /\ IF ~adapter_registered(detect_vendor(raw))
         THEN audit' = [audit EXCEPT ![p].pc = "done",
                                     ![p].vendor = detect_vendor(raw),
                                     ![p].result = "unknown_vendor"]
       ELSE IF parse_raises(raw)
         THEN audit' = [audit EXCEPT ![p].pc = "raised",
                                     ![p].vendor = detect_vendor(raw),
                                     ![p].result = "parse_error"]
       ELSE LET node == NodeData(raw)
                verdict == judge_concurrently(node)
                record == check_probation(probation, node.id)
            IN  audit' = [audit EXCEPT ![p] =
                            [IdleAudit EXCEPT
                                !.pc = AfterCheck(verdict.status, record),
                                !.vendor = node.vendor,
                                !.adapter = node.vendor,
                                !.id = node.id,
                                !.license_actual = node.license_actual,
                                !.status = verdict.status,
                                !.offenses = verdict.offenses,
                                !.total_savings = verdict.total_savings,
                                !.record = record,
                                !.result = IF verdict.status = "Innocent" /\ record = << >>
                                             THEN "clean" ELSE "none"]]
    /\ UNCHANGED << probation, ledger, today >>

IngestAndAudit(p, raw) == IngestBody(p, raw) /\ UNCHANGED probe

\* the same call when the read of the probation record raises
IngestAndFail(p, raw) ==
    /\ audit[p].pc = "idle"
    /\ nAudits < MaxAudits
    /\ adapter_registered(detect_vendor(raw))
    /\ ~parse_raises(raw)
    /\ nAudits' = nAudits + 1
    /\ entry' = [entry EXCEPT ![p] =
                    [probation |-> probation, ledger |-> ledger, today |-> today]]
    /\ LET node == NodeData(raw)
           verdict == judge_concurrently(node)
       IN  audit' = [audit EXCEPT ![p] =
                        [IdleAudit EXCEPT
                            !.pc = "raised", !.vendor = node.vendor, !.id = node.id,
                            !.license_actual = node.license_actual,
                            !.status = verdict.status,
                            !.offenses = verdict.offenses,
                            !.total_savings = verdict.total_savings,
                            !.result = "storage_error"]]
    /\ UNCHANGED << probe, probation, ledger, today >>

\* Innocent with a record: release_suspect, "Cleared of all charges."
ReleaseInnocent(p) ==
    /\ audit[p].pc = "release"
    /\ probation' = release_suspect(probation, audit[p].id)
    /\ audit' = [audit EXCEPT ![p].pc = "done", ![p].result = "cleared"]
    /\ UNCHANGED << probe, ledger, today, entry, nAudits >>

\* Guilty without a record: add_suspect, "Indicted ... Probation Day 1."
AddSuspect(p) ==
    /\ audit[p].pc = "add"
    /\ probation' = add_suspect(probation, audit[p].id,
                                crimes_summary(audit[p].offenses), today)
    /\ audit' = [audit EXCEPT ![p].pc = "done", ![p].result = "indicted"]
    /\ UNCHANGED << probe, ledger, today, entry, nAudits >>

\* variant of the update that writes back the strike count it read
UpdateSuspectStale(p) ==
    /\ audit[p].pc = "update"
    /\ LET days_in_jail == today - audit[p].record[1]
       IN  /\ probation' =
                  [k \in DOMAIN probation |->
                      IF k = audit[p].id
                        THEN [probation[k] EXCEPT !.last_seen = today,
                                 !.strike_count = audit[p].record[2] + 1]
                        ELSE probation[k]]
           /\ audit' = [audit EXCEPT
                  ![p].days_in_jail = days_in_jail,
                  ![p].pc = IF matured(days_in_jail) THEN "profit" ELSE "done",
                  ![p].i = IF matured(days_in_jail) THEN 1 ELSE 0,
                  ![p].result = IF matured(days_in_jail)
                                  THEN audit[p].result ELSE "surveillance"]
    /\ UNCHANGED << probe, ledger, today, entry, nAudits >>

\* Guilty with a record: fromisoformat (which raises before the update when
\* the stored text is no date), days_in_jail, update_suspect, the threshold
UpdateSuspect(p) ==
    /\ audit[p].pc = "update"
    /\ IF fromisoformat_raises(audit[p].record[1])
         THEN /\ audit' = [audit EXCEPT ![p].pc = "raised",
                                        ![p].result = "value_error"]
              /\ UNCHANGED probation
         ELSE LET days_in_jail == today - audit[p].record[1]
              IN  /\ probation' = update_suspect(probation, audit[p].id, today)
                  /\ audit' = [audit EXCEPT
                       ![p].days_in_jail = days_in_jail,
                       ![p].pc = IF matured(days_in_jail) THEN "profit" ELSE "done",
                       ![p].i = IF matured(days_in_jail) THEN 1 ELSE 0,
                       ![p].result = IF matured(days_in_jail)
                                       THEN audit[p].result ELSE "surveillance"]
    /\ UNCHANGED << probe, ledger, today, entry, nAudits >>

\* the command generated for the offense the loop is at
rico_cmd(p) ==
    LET offense == audit[p].offenses[audit[p].i]
    IN  adapter_generate_fix(audit[p].adapter, audit[p].id,
                             fix_value(offense.code, audit[p].license_actual),
                             offense.code)

\* variant of the loop body that skips the ledger when the command is empty
RecordProfitSkipEmpty(p) ==
    /\ audit[p].pc = "profit"
    /\ LET offense == audit[p].offenses[audit[p].i]
       IN  ledger' = IF rico_cmd(p) = EmptyCommand THEN ledger
                     ELSE record_profit(ledger, today, audit[p].id,
                                        "RICO_" \o offense.code, offense.saving_value)
    /\ audit' = [audit EXCEPT
           ![p].scripts = Append(@, rico_cmd(p)),
           ![p].i = @ + 1,
           ![p].pc = IF audit[p].i = Len(audit[p].offenses) THEN "close" ELSE "profit"]
    /\ UNCHANGED << probe, probation, today, entry, nAudits >>

\* _execute_rico_act: one pass of the loop over verdict.offenses (scripts
\* holds the commands; the comment lines between them are fixed text)
RecordProfit(p) ==
    /\ audit[p].pc = "profit"
    /\ LET offense == audit[p].offenses[audit[p].i]
       IN  ledger' = record_profit(ledger, today, audit[p].id,
                                   "RICO_" \o offense.code, offense.saving_value)
    /\ audit' = [audit EXCEPT
           ![p].scripts = Append(@, rico_cmd(p)),
           ![p].i = @ + 1,
           ![p].pc = IF audit[p].i = Len(audit[p].offenses) THEN "close" ELSE "profit"]
    /\ UNCHANGED << probe, probation, today, entry, nAudits >>

\* _execute_rico_act after the loop: release_suspect (Case Closed), report
CloseCase(p) ==
    /\ audit[p].pc = "close"
    /\ probation' = release_suspect(probation, audit[p].id)
    /\ audit' = [audit EXCEPT ![p].pc = "done", ![p].result = "remediation"]
    /\ UNCHANGED << probe, ledger, today, entry, nAudits >>

\* a store operation raises (sqlite3.Error): its transaction is rolled back
\* and the exception leaves ingest_and_audit, which has no handler
StorageFailure(p) ==
    /\ audit[p].pc \in {"release", "add", "update", "profit", "close"}
    /\ audit' = [audit EXCEPT ![p].pc = "raised", ![p].result = "storage_error"]
    /\ UNCHANGED << probe, probation, ledger, today, entry, nAudits >>

\* the call has returned or raised; the caller may invoke again
Return(p) ==
    /\ audit[p].pc \in {"done", "raised"}
    /\ audit' = [audit EXCEPT ![p] = IdleAudit]
    /\ entry' = [entry EXCEPT ![p] = NoEntry]
    /\ UNCHANGED << probe, probation, ledger, today, nAudits >>

\* the calendar advances to a later audit date
Tick ==
    /\ \E d \in Days : d > today /\ today' = d
    /\ UNCHANGED << probe, probation, ledger, audit, entry, nAudits >>

\* one caller: an audit is invoked only when none is in flight
Caller == "a1"
SeqIngestAndAudit(p, raw) == p = Caller /\ Quiet /\ IngestAndAudit(p, raw)
SeqIngestAndFail(p, raw) == p = Caller /\ Quiet /\ IngestAndFail(p, raw)
SeqTick == Quiet /\ Tick

Next ==
    \/ \E p \in Procs : \E raw \in RawLogs : SeqIngestAndAudit(p, raw)
    \/ \E p \in Procs : \E raw \in RawLogs : SeqIngestAndFail(p, raw)
    \/ \E p \in Procs : ReleaseInnocent(p)
    \/ \E p \in Procs : AddSuspect(p)
    \/ \E p \in Procs : UpdateSuspect(p)
    \/ \E p \in Procs : RecordProfit(p)
    \/ \E p \in Procs : CloseCase(p)
    \/ \E p \in Procs : StorageFailure(p)
    \/ \E p \in Procs : Return(p)
    \/ SeqTick

Spec == Init /\ [][Next]_vars

\* several callers and a store that does not fail: audits of any links may
\* be in flight together, each within one calendar day.  The callers start
\* from a store that earlier audits left behind: empty, or holding the
\* record of a link indicted on day 0 for every offense.
SeedRaw ==
    [signature |-> TRUE, id |-> << "7" >>, license |-> << "4", "0", "0" >>,
     throughput |-> << "0", ".", "5" >>, bandwidth |-> << "5", "6" >>,
     status_label |-> TRUE, status |-> UP]

SeedTables ==
    LET node == NodeData(SeedRaw)
        summary == crimes_summary(judge_concurrently(node).offenses)
    IN  {<< >>, add_suspect(<< >>, node.id, summary, 0)}

InitConc ==
    /\ probation \in SeedTables
    /\ ledger = << >>
    /\ today \in Days
    /\ audit = [p \in Procs |-> IdleAudit]
    /\ entry = [p \in Procs |-> NoEntry]
    /\ nAudits = 0
    /\ probe = NoProbe

ConcIngestAndAudit(p, raw) == nAudits < MaxConcAudits /\ IngestAndAudit(p, raw)

NextConc ==
    \/ \E p \in Procs : \E raw \in RawLogs : ConcIngestAndAudit(p, raw)
    \/ \E p \in Procs : ReleaseInnocent(p)
    \/ \E p \in Procs : AddSuspect(p)
    \/ \E p \in Procs : UpdateSuspect(p)
    \/ \E p \in Procs : RecordProfit(p)
    \/ \E p \in Procs : CloseCase(p)
    \/ \E p \in Procs : Return(p)
    \/ SeqTick

SpecConc == InitConc /\ [][NextConc]_vars

\* several callers, with the identifier found in each text remembered:
\* probe.ids[p] is the group the id pattern captured in the text of audit p
InitLinks ==
    /\ probation = << >>
    /\ ledger = << >>
    /\ today = 0
    /\ audit = [p \in Procs |-> IdleAudit]
    /\ entry = [p \in Procs |-> NoEntry]
    /\ nAudits = 0
    /\ probe = [stage |-> "links", ids |-> [p \in Procs |-> NoMatch]]

LinksIngestAndAudit(p, raw) ==
    /\ nAudits < MaxConcAudits
    /\ IngestBody(p, raw)
    /\ probe' = [probe EXCEPT !.ids[p] = raw.id]

NextLinks ==
    \/ \E p \in Procs : \E raw \in RawLogs : LinksIngestAndAudit(p, raw)
    \/ \E p \in Procs : ReleaseInnocent(p)
    \/ \E p \in Procs : AddSuspect(p)
    \/ \E p \in Procs : UpdateSuspect(p)
    \/ \E p \in Procs : Return(p)
    \/ SeqTick

SpecLinks == InitLinks /\ [][NextLinks]_vars

\* one caller on a store file whose row for the seeded link holds a
\* start_date that is not an ISO date (the file outlives the process and
\* start_date is a free TEXT column, rewritten directly at lines 276-278)
CorruptTable ==
    LET node == NodeData(SeedRaw)
    IN  (node.id :> [offense_summary |-> crimes_summary(judge_concurrently(node).offenses),
                     start_date |-> CorruptDate, last_seen |-> 0, strike_count |-> 1])

InitCorrupt ==
    /\ probation = CorruptTable
    /\ ledger = << >>
    /\ today = 0
    /\ audit = [p \in Procs |-> IdleAudit]
    /\ entry = [p \in Procs |-> NoEntry]
    /\ nAudits = 0
    /\ probe = NoProbe

SpecCorrupt == InitCorrupt /\ [][Next]_vars

\* ------------------------------------- detect, parse and judge on their own
\* texts around the thresholds of the three rules
ProbeLicenseGroups ==
    {NoMatch, << "5", "0" >>, << "5", "1" >>, << "9", "0" >>, << "9", "1" >>,
     << "4", "0", "0" >>}
ProbeThroughputGroups ==
    {NoMatch, << "." >>, << "0", ".", "5" >>, << "0", ".", "9" >>,
     << "1", ".", "0" >>, << "4", "9", ".", "9" >>, << "5", "0" >>}
ProbeBandwidthGroups == {NoMatch, << "2", "8" >>, << "5", "6" >>}

ProbeLogs ==
    {raw \in [signature : BOOLEAN, id : {<< "7" >>}, license : ProbeLicenseGroups,
              throughput : ProbeThroughputGroups, bandwidth : ProbeBandwidthGroups,
              status_label : BOOLEAN, status : StatusGroups] :
        /\ raw.license # NoMatch => raw.signature
        /\ raw.status # NoMatch => raw.status_label}

InitJudge ==
    /\ probation = << >>
    /\ ledger = << >>
    /\ today = 0
    /\ audit = [p \in Procs |-> IdleAudit]
    /\ entry = [p \in Procs |-> NoEntry]
    /\ nAudits = 0
    /\ \E raw \in ProbeLogs : probe = [stage |-> "text", raw |-> raw]

\* ingest_and_audit up to the NodeData, or its early exits
ProbeParse ==
    /\ probe.stage = "text"
    /\ probe' =
          IF ~adapter_registered(detect_vendor(probe.raw))
            THEN [stage |-> "unknown_vendor", raw |-> probe.raw]
          ELSE IF parse_raises(probe.raw)
            THEN [stage |-> "parse_error", raw |-> probe.raw]
          ELSE [stage |-> "node", raw |-> probe.raw, node |-> NodeData(probe.raw)]
    /\ UNCHANGED << probation, ledger, today, audit, entry, nAudits >>

\* verdict = self._judge_concurrently(node)
ProbeJudge ==
    /\ probe.stage = "node"
    /\ probe' = [stage |-> "verdict", raw |-> probe.raw, node |-> probe.node,
                 verdict |-> judge_concurrently(probe.node)]
    /\ UNCHANGED << probation, ledger, today, audit, entry, nAudits >>

NextJudge == ProbeParse \/ ProbeJudge

SpecJudge == InitJudge /\ [][NextJudge]_vars

\* _execute_rico_act on its own: entered for a matured record of the seeded
\* link, with the verdict of any guilty text and either adapter
RicoLogs ==
    {raw \in ProbeLogs :
        /\ adapter_registered(detect_vendor(raw))
        /\ ~parse_raises(raw)
        /\ judge_concurrently(NodeData(raw)).status = "Guilty"}

InitRico ==
    \E raw \in RicoLogs : \E adapter \in Adapters :
    \E day \in {PROBATION_DAYS, PROBATION_DAYS + 1} :
    LET id == NodeData(raw).id
        license_actual == NodeData(raw).license_actual
        verdict == judge_concurrently(NodeData(raw))
        indicted == add_suspect(<< >>, id, crimes_summary(verdict.offenses), 0)
    IN  /\ probation = update_suspect(indicted, id, day)
        /\ ledger = << >>
        /\ today = day
        /\ audit = [p \in Procs |->
              IF p = Caller
                THEN [IdleAudit EXCEPT
                        !.pc = "profit", !.vendor = "Huawei", !.adapter = adapter,
                        !.id = id, !.license_actual = license_actual,
                        !.status = verdict.status, !.offenses = verdict.offenses,
                        !.total_savings = verdict.total_savings,
                        !.record = check_probation(indicted, id),
                        !.days_in_jail = day, !.i = 1]
                ELSE IdleAudit]
        /\ entry = [p \in Procs |->
              IF p = Caller
                THEN [probation |-> indicted, ledger |-> << >>, today |-> day]
                ELSE NoEntry]
        /\ nAudits = 1
        /\ probe = NoProbe

NextRico ==
    \/ \E p \in Procs : RecordProfit(p)
    \/ \E p \in Procs : CloseCase(p)
    \/ \E p \in Procs : Return(p)

SpecRico == InitRico /\ [][NextRico]_vars

\* one link that is guilty on every audit, a store that does not fail, and
\* a caller that keeps auditing: every started call runs to its return, a
\* new call is made whenever none is in flight, and the calendar advances
LiveLogs ==
    {raw \in RawLogs :
        /\ raw.id = SeedRaw.id
        /\ adapter_registered(detect_vendor(raw))
        /\ ~parse_raises(raw)
        /\ judge_concurrently(NodeData(raw)).status = "Guilty"}

LiveIngestAndAudit == \E raw \in LiveLogs : SeqIngestAndAudit(Caller, raw)

NextLive ==
    \/ LiveIngestAndAudit
    \/ AddSuspect(Caller)
    \/ UpdateSuspect(Caller)
    \/ RecordProfit(Caller)
    \/ CloseCase(Caller)
    \/ Return(Caller)
    \/ SeqTick

FairLive ==
    /\ WF_vars(LiveIngestAndAudit)
    /\ WF_vars(AddSuspect(Caller))
    /\ WF_vars(UpdateSuspect(Caller))
    /\ WF_vars(RecordProfit(Caller))
    /\ WF_vars(CloseCase(Caller))
    /\ WF_vars(Return(Caller))
    /\ WF_vars(SeqTick)

SpecLive == Init /\ [][NextLive]_vars /\ FairLive

\* --------------------------------------------------- _process_verdict, whole
\* the ledger rows _execute_rico_act appends for a verdict, in verdict order
rico_entries(day, link_id, offs) ==
    [n \in 1..Len(offs) |->
        [date |-> day, link_id |-> link_id,
         action_taken |-> "RICO_" \o offs[n].code,
         recovered_value |-> offs[n].saving_value]]

\* _process_verdict and _execute_rico_act run without interruption on a
\* store (tbl, led) on date day
process_verdict(tbl, led, day, link_id, status, offs) ==
    LET record == check_probation(tbl, link_id)
    IN  IF status = "Innocent"
          THEN IF record # << >>
                 THEN [probation |-> release_suspect(tbl, link_id), ledger |-> led,
                       result |-> "cleared"]
                 ELSE [probation |-> tbl, ledger |-> led, result |-> "clean"]
        ELSE IF record = << >>
          THEN [probation |-> add_suspect(tbl, link_id, crimes_summary(offs), day),
                ledger |-> led, result |-> "indicted"]
        ELSE IF matured(day - record[1])
          THEN [probation |-> release_suspect(update_suspect(tbl, link_id, day), link_id),
                ledger |-> led \o rico_entries(day, link_id, offs),
                result |-> "remediation"]
        ELSE [probation |-> update_suspect(tbl, link_id, day), ledger |-> led,
              result |-> "surveillance"]

\* ------------------------------------------------------------ the claims
\* an audit that returned a report of _process_verdict
Reported(p) ==
    audit[p].pc = "done" /\ audit[p].status \in {"Guilty", "Innocent"}

HadRecord(p) == audit[p].id \in DOMAIN entry[p].probation

\* whole days from startDate to the audit date, for an audit that had a record
Age(p) == entry[p].today - entry[p].probation[audit[p].id].start_date

\* the codes of a verdict joined by commas, case by case
JoinedCodes(offs) ==
    LET codes == [n \in 1..Len(offs) |-> offs[n].code]
    IN  CASE codes = << "LICENSE" >> -> "LICENSE"
          [] codes = << "BW" >> -> "BW"
          [] codes = << "ZOMBIE" >> -> "ZOMBIE"
          [] codes = << "LICENSE", "BW" >> -> "LICENSE,BW"
          [] codes = << "LICENSE", "ZOMBIE" >> -> "LICENSE,ZOMBIE"
          [] codes = << "BW", "ZOMBIE" >> -> "BW,ZOMBIE"
          [] codes = << "LICENSE", "BW", "ZOMBIE" >> -> "LICENSE,BW,ZOMBIE"
          [] OTHER -> "?"

\* C1: a GUILTY audit of a link whose record is at least PROBATION_DAYS old
\* executes remediation: the ledger grows by exactly one entry per offense of
\* the verdict, in verdict order, labelled "RICO_" + code with the offense's
\* savings, and afterwards the link has no probation record.
C1_MaturedGuiltyRemediates ==
    \A p \in Procs :
        (Reported(p) /\ audit[p].status = "Guilty" /\ HadRecord(p)
            /\ Age(p) >= PROBATION_DAYS)
        => /\ audit[p].result = "remediation"
           /\ Len(ledger) = Len(entry[p].ledger) + Len(audit[p].offenses)
           /\ SubSeq(ledger, 1, Len(entry[p].ledger)) = entry[p].ledger
           /\ \A n \in 1..Len(audit[p].offenses) :
                 LET row == ledger[Len(entry[p].ledger) + n]
                     off == audit[p].offenses[n]
                 IN  /\ row.link_id = audit[p].id
                     /\ row.action_taken = "RICO_" \o off.code
                     /\ row.recovered_value = off.saving_value
           /\ audit[p].id \notin DOMAIN probation

C1_Witness ==
    \E p \in Procs :
        /\ Reported(p) /\ audit[p].status = "Guilty" /\ HadRecord(p)
        /\ Age(p) >= PROBATION_DAYS
        /\ audit[p].result = "remediation"
        /\ Len(audit[p].offenses) = 3
        /\ Len(ledger) = 3

\* C2: a GUILTY audit of a link without a probation record creates the record
\* with startDate = lastSeenDate = the audit date, strikeCount = 1 and the
\* comma-joined offense codes, and reports "indicted", whatever the offenses.
C2_FirstGuiltyIndicts ==
    \A p \in Procs :
        (Reported(p) /\ audit[p].status = "Guilty" /\ ~HadRecord(p))
        => /\ audit[p].result = "indicted"
           /\ audit[p].id \in DOMAIN probation
           /\ probation[audit[p].id] =
                 [offense_summary |-> JoinedCodes(audit[p].offenses),
                  start_date |-> entry[p].today, last_seen |-> entry[p].today,
                  strike_count |-> 1]
           /\ ledger = entry[p].ledger

C2_Witness ==
    \E p \in Procs :
        /\ Reported(p) /\ audit[p].status = "Guilty" /\ ~HadRecord(p)
        /\ audit[p].result = "indicted"
        /\ Len(audit[p].offenses) = 3
        /\ entry[p].today > 0

\* C3: a GUILTY audit of a link whose record is younger than PROBATION_DAYS
\* adds exactly 1 to strikeCount and sets lastSeenDate to the audit date;
\* startDate, offenseSummary, the ledger and the records of all other links
\* stay as they were.  Audits repeated on one calendar day are included.
C3_YoungGuiltyStrikes ==
    \A p \in Procs :
        (Reported(p) /\ audit[p].status = "Guilty" /\ HadRecord(p)
            /\ Age(p) < PROBATION_DAYS)
        => /\ audit[p].result = "surveillance"
           /\ DOMAIN probation = DOMAIN entry[p].probation
           /\ \A k \in DOMAIN probation :
                 LET old == entry[p].probation[k]
                 IN  IF k = audit[p].id
                       THEN probation[k] =
                              [offense_summary |-> old.offense_summary,
                               start_date |-> old.start_date,
                               last_seen |-> entry[p].today,
                               strike_count |-> old.strike_count + 1]
                       ELSE probation[k] = old
           /\ ledger = entry[p].ledger

C3_Witness ==
    \E p \in Procs :
        /\ Reported(p) /\ audit[p].status = "Guilty" /\ HadRecord(p)
        /\ Age(p) = 0
        /\ audit[p].result = "surveillance"
        /\ probation[audit[p].id].strike_count = 2
        /\ Cardinality(DOMAIN probation) = 2

\* C4: after an INNOCENT audit the link has no probation record: a record
\* that existed is deleted and the report is "cleared", whatever its age and
\* strikeCount; without a record nothing changes and the report is "clean";
\* the ledger is not appended to in either case.
C4_InnocentClears ==
    \A p \in Procs :
        (Reported(p) /\ audit[p].status = "Innocent")
        => /\ audit[p].id \notin DOMAIN probation
           /\ DOMAIN probation = DOMAIN entry[p].probation \ {audit[p].id}
           /\ \A k \in DOMAIN probation : probation[k] = entry[p].probation[k]
           /\ audit[p].result = IF HadRecord(p) THEN "cleared" ELSE "clean"
           /\ ledger = entry[p].ledger

C4_Witness ==
    \E p \in Procs :
        /\ Reported(p) /\ audit[p].status = "Innocent" /\ HadRecord(p)
        /\ Age(p) >= PROBATION_DAYS
        /\ entry[p].probation[audit[p].id].strike_count = 2
        /\ audit[p].result = "cleared"

\* C5: remediation is invoked only at age >= PROBATION_DAYS: every step
\* that appends to the ledger appends one row, for the link of an audit in
\* flight at whose start that link had a record with startDate at least
\* PROBATION_DAYS days before the audit date.
C5_LedgerOnlyWhenMatured ==
    [][ledger' # ledger =>
          /\ Len(ledger') = Len(ledger) + 1
          /\ SubSeq(ledger', 1, Len(ledger)) = ledger
          /\ \E p \in Procs :
                /\ audit[p].pc = "profit"
                /\ audit'[p].i = audit[p].i + 1
                /\ ledger'[Len(ledger')].link_id = audit[p].id
                /\ HadRecord(p)
                /\ Age(p) >= PROBATION_DAYS]_vars

C5_Witness ==
    /\ Len(ledger) >= 1
    /\ \E k \in DOMAIN probation :
          k # ledger[1].link_id /\ today - probation[k].start_date = PROBATION_DAYS - 1

\* C6: escalation monotonicity: while a link's probation record is not
\* deleted, no step decreases its strikeCount or changes its startDate, and
\* strikeCount is at least 1.
C6_EscalationMonotone ==
    [][\A k \in DOMAIN probation :
          /\ probation[k].strike_count >= 1
          /\ k \in DOMAIN probation' =>
                /\ probation'[k].strike_count >= probation[k].strike_count
                /\ probation'[k].start_date = probation[k].start_date]_vars

C6_Witness ==
    \E k \in DOMAIN probation :
        /\ probation[k].strike_count = 3
        /\ probation[k].last_seen > probation[k].start_date

\* C7: when a store operation fails during an audit, the link's probation
\* record (existence, startDate, lastSeenDate, strikeCount) is exactly what
\* it was before that audit began.
C7_FailureLeavesRecordIntact ==
    \A p \in Procs :
        audit[p].result = "storage_error"
        => /\ (audit[p].id \in DOMAIN probation) = HadRecord(p)
           /\ HadRecord(p) => probation[audit[p].id] = entry[p].probation[audit[p].id]

\* C8: no lost strikeCount updates: two GUILTY audits of one link that both
\* start against its record with strikeCount = n and age < PROBATION_DAYS, and
\* run concurrently, leave the record with strikeCount = n + 2.
C8_NoLostStrikes ==
    \A p, q \in Procs :
        (/\ p # q
         /\ Reported(p) /\ Reported(q)
         /\ audit[p].id = audit[q].id
         /\ audit[p].status = "Guilty" /\ audit[q].status = "Guilty"
         /\ HadRecord(p) /\ HadRecord(q)
         /\ Age(p) < PROBATION_DAYS /\ Age(q) < PROBATION_DAYS
         /\ entry[p].probation[audit[p].id] = entry[q].probation[audit[q].id])
        => /\ audit[p].id \in DOMAIN probation
           /\ probation[audit[p].id].strike_count =
                 entry[p].probation[audit[p].id].strike_count + 2

C8_Witness ==
    \E p, q \in Procs :
        /\ p # q
        /\ Reported(p) /\ Reported(q)
        /\ audit[p].id = audit[q].id
        /\ audit[p].result = "surveillance" /\ audit[q].result = "surveillance"
        /\ entry[p].probation[audit[p].id] = entry[q].probation[audit[q].id]
        /\ entry[p].probation[audit[p].id].strike_count = 1
        /\ probation[audit[p].id].strike_count = 3

\* the store and the reports after audit p and then audit q, each run whole
SerialOutcome(p, q) ==
    LET first == process_verdict(entry[p].probation, entry[p].ledger, entry[p].today,
                                 audit[p].id, audit[p].status, audit[p].offenses)
        second == process_verdict(first.probation, first.ledger, entry[p].today,
                                  audit[q].id, audit[q].status, audit[q].offenses)
    IN  /\ probation = second.probation
        /\ ledger = second.ledger
        /\ audit[p].result = first.result
        /\ audit[q].result = second.result

\* C9: each audit is one atomic pass per link: two audits of one link that
\* run concurrently end with the probation record, the ledger and the two
\* reports of running them one after the other in some order.
C9_AuditsSerializable ==
    \A p, q \in Procs :
        (/\ p # q
         /\ Reported(p) /\ Reported(q)
         /\ audit[p].id = audit[q].id
         /\ entry[p] = entry[q])
        => SerialOutcome(p, q) \/ SerialOutcome(q, p)

\* C10: within one probation case of a link, from the creation of its record
\* to its deletion, at most one ledger entry per offense kind is appended.
\* The entries of the open case of link k are those dated after the
\* startDate of its record.
C10_OneEntryPerOffense ==
    \A k \in DOMAIN probation :
        \A m, n \in 1..Len(ledger) :
            (/\ ledger[m].link_id = k /\ ledger[n].link_id = k
             /\ ledger[m].date > probation[k].start_date
             /\ ledger[n].date > probation[k].start_date
             /\ ledger[m].action_taken = ledger[n].action_taken)
            => m = n

\* a whole audit by the single caller ends as process_verdict computes
StepsAgreeWithWhole ==
    \A p \in Procs :
        Reported(p) =>
            LET whole == process_verdict(entry[p].probation, entry[p].ledger,
                                         entry[p].today, audit[p].id,
                                         audit[p].status, audit[p].offenses)
            IN  /\ probation = whole.probation
                /\ ledger = whole.ledger
                /\ audit[p].result = whole.result

\* an audit that got past detect and parse and has not returned yet
Tracked(p) == audit[p].status \in {"Guilty", "Innocent"} /\ audit[p].pc # "idle"

\* C11: audits of different links are independent: two texts that carry
\* different link identifiers are tracked under different probation keys, so
\* no audit of one creates, updates or deletes the record of the other.
C11_DistinctLinksDistinctKeys ==
    \A p, q \in Procs :
        (Tracked(p) /\ Tracked(q) /\ probe.ids[p] # probe.ids[q])
        => /\ audit[p].id # audit[q].id
           /\ (audit[q].pc = "done" /\ audit[q].result = "indicted")
                 => audit[q].id \in DOMAIN probation

Judged == probe.stage = "verdict"

VerdictCodes == [n \in 1..Len(probe.verdict.offenses) |-> probe.verdict.offenses[n].code]

HasCode(c) == \E n \in 1..Len(VerdictCodes) : VerdictCodes[n] = c

\* the codes in rule order, each present when its rule triggers
ExpectedCodes(lic, bw, zombie) ==
    (IF lic THEN << "LICENSE" >> ELSE << >>)
    \o (IF bw THEN << "BW" >> ELSE << >>)
    \o (IF zombie THEN << "ZOMBIE" >> ELSE << >>)

\* C12: the three rules are evaluated independently: the offense list holds
\* LICENSE iff reserved > 1.5 x required and reserved > 50, BW iff bandwidth
\* = 56 and throughput < 50, ZOMBIE iff status = UP and throughput < 1.0,
\* each at most once, in that order; all the comparisons are strict.
C12_AllRulesIndependent ==
    Judged =>
        LET node == probe.node
        IN  /\ VerdictCodes =
                  ExpectedCodes(
                      10 * node.license_reserved > 15 * node.license_actual
                          /\ node.license_reserved > 50,
                      node.bandwidth = 56 /\ node.throughput < 50 * Scale,
                      node.admin_status = << "U", "P" >> /\ node.throughput < 1 * Scale)
            /\ (2 * node.license_reserved = 3 * node.license_actual) => ~HasCode("LICENSE")
            /\ node.license_reserved = 50 => ~HasCode("LICENSE")
            /\ node.throughput = 50 * Scale => ~HasCode("BW")
            /\ node.throughput = 1 * Scale => ~HasCode("ZOMBIE")

\* reserved exactly 1.5 x required (90 against 60) at throughput exactly 50,
\* with the 56 MHz channel and the port UP, is judged innocent
C12_Witness ==
    /\ Judged
    /\ probe.node.license_reserved = 90 /\ probe.node.license_actual = 60
    /\ probe.node.throughput = 50 * Scale
    /\ probe.node.bandwidth = 56
    /\ probe.node.admin_status = UP
    /\ probe.verdict.offenses = << >>

ScenarioA ==
    /\ probe.node.license_reserved = 400
    /\ probe.node.throughput = 5
    /\ probe.node.bandwidth = 56
    /\ probe.node.admin_status = UP

\* C13: quantities and savings follow the rule formulas: LICENSE wastes
\* reserved - required (required = throughput x 1.2 rounded down) and saves
\* wasted x 10; BW wastes 28 and saves 560; ZOMBIE wastes 1 and saves 50; the
\* snapshot {400, 0.5, 56, UP} yields all three with total savings 4610.
C13_OffenseFormulas ==
    Judged =>
        LET node == probe.node
            offs == probe.verdict.offenses
        IN  /\ node.license_actual * 100 <= node.throughput * 12
            /\ node.throughput * 12 < (node.license_actual + 1) * 100
            /\ \A n \in 1..Len(offs) :
                  /\ offs[n].code = "LICENSE" =>
                        /\ offs[n].wasted_qty = node.license_reserved - node.license_actual
                        /\ offs[n].saving_value = offs[n].wasted_qty * 10
                  /\ offs[n].code = "BW" =>
                        offs[n].wasted_qty = 28 /\ offs[n].saving_value = 560
                  /\ offs[n].code = "ZOMBIE" =>
                        offs[n].wasted_qty = 1 /\ offs[n].saving_value = 50
            /\ ScenarioA =>
                  /\ node.license_actual = 0
                  /\ VerdictCodes = << "LICENSE", "BW", "ZOMBIE" >>
                  /\ offs[1].wasted_qty = 400 /\ offs[1].saving_value = 4000
                  /\ probe.verdict.total_savings = 4610

C13_Witness ==
    /\ Judged
    /\ ScenarioA
    /\ probe.verdict.total_savings = 4610

RECURSIVE SumSavings(_)
SumSavings(offs) ==
    IF offs = << >> THEN 0
    ELSE offs[1].saving_value + SumSavings(Tail(offs))

\* C14: for every snapshot the verdict's total savings equals the sum of the
\* savings of the offenses in its list, 0 when the list is empty.
C14_TotalIsSum ==
    Judged =>
        /\ probe.verdict.total_savings = SumSavings(probe.verdict.offenses)
        /\ probe.verdict.offenses = << >> => probe.verdict.total_savings = 0

C14_Witness ==
    /\ Judged
    /\ VerdictCodes = << "LICENSE", "ZOMBIE" >>
    /\ probe.verdict.total_savings = 560

\* C15: for every snapshot the verdict is GUILTY iff its offense list is not
\* empty, and INNOCENT otherwise.
C15_GuiltyIffOffenses ==
    Judged =>
        /\ probe.verdict.status \in {"Guilty", "Innocent"}
        /\ (probe.verdict.status = "Guilty") <=> (Len(probe.verdict.offenses) > 0)

C15_Witness ==
    /\ Judged
    /\ probe.verdict.status = "Guilty"
    /\ Len(probe.verdict.offenses) = 1
    /\ probe.node.license_reserved = 0

ReadCorrupt(p) ==
    /\ Tracked(p)
    /\ audit[p].id \in DOMAIN entry[p].probation
    /\ fromisoformat_raises(entry[p].probation[audit[p].id].start_date)

\* C16: a probation record whose stored start date is not a valid date is
\* treated as no record: the audit does not fail on it, a guilty audit ends
\* indicted and an innocent audit ends clean.
C16_CorruptReadIsNoRecord ==
    \A p \in Procs :
        ReadCorrupt(p) =>
            /\ audit[p].result # "value_error"
            /\ audit[p].pc = "done" =>
                  audit[p].result =
                      IF audit[p].status = "Guilty" THEN "indicted" ELSE "clean"

ReportOutcomes == {"clean", "cleared", "indicted", "surveillance", "remediation"}

\* C17: parsing never raises: an audit of a text recognised as a supported
\* vendor does not end in a parse exception, whatever fields are absent or
\* malformed, and when it returns it returns one of the five report outcomes.
C17_ParsingNeverRaises ==
    \A p \in Procs :
        (audit[p].pc # "idle" /\ adapter_registered(audit[p].vendor)) =>
            /\ audit[p].result # "parse_error"
            /\ audit[p].pc = "done" => audit[p].result \in ReportOutcomes

SomeEmptyCommand(p) ==
    \E n \in 1..Len(audit[p].scripts) : audit[p].scripts[n] = EmptyCommand

\* C18: an empty command returned by the adapter for an offense does not
\* abort the batch: when remediation has run with an empty command, every
\* offense was processed, the ledger gained one entry per offense (the one
\* with the empty command included) and the probation record is deleted.
C18_EmptyCommandTolerated ==
    \A p \in Procs :
        SomeEmptyCommand(p) =>
            /\ audit[p].pc \in {"profit", "close", "done"}
            /\ Len(ledger) = Len(entry[p].ledger) + Len(audit[p].scripts)
            /\ audit[p].pc = "done" =>
                  /\ audit[p].result = "remediation"
                  /\ Len(audit[p].scripts) = Len(audit[p].offenses)
                  /\ ledger = entry[p].ledger
                        \o rico_entries(entry[p].today, audit[p].id, audit[p].offenses)
                  /\ audit[p].id \notin DOMAIN probation

C18_Witness ==
    \E p \in Procs :
        /\ audit[p].pc = "done"
        /\ audit[p].result = "remediation"
        /\ Len(audit[p].offenses) = 3
        /\ \A n \in 1..3 : audit[p].scripts[n] = EmptyCommand
        /\ Len(ledger) = 3
        /\ probation = << >>

\* C19: a text with no registered vendor signature ends the audit at once
\* with the unknown-vendor result: no probation record is read, created,
\* updated or deleted and no ledger entry is appended.
C19_UnknownVendorStops ==
    \A p \in Procs :
        (audit[p].pc # "idle" /\ audit[p].vendor = "Unknown") =>
            /\ audit[p].pc = "done"
            /\ audit[p].result = "unknown_vendor"
            /\ audit[p].record = << >>
            /\ probation = entry[p].probation
            /\ ledger = entry[p].ledger

C19_Witness ==
    \E p \in Procs :
        /\ audit[p].vendor = "Unknown"
        /\ audit[p].result = "unknown_vendor"
        /\ probation # << >>
        /\ probation = entry[p].probation

LiveId == NodeData(SeedRaw).id

\* the record of the link has reached the end of its probation and another
\* audit can still be invoked
DueForRemediation ==
    /\ Quiet
    /\ nAudits < MaxAudits
    /\ LiveId \in DOMAIN probation
    /\ today - probation[LiveId].start_date >= PROBATION_DAYS

Remediated ==
    /\ audit[Caller].pc = "done"
    /\ audit[Caller].result = "remediation"
    /\ LiveId \notin DOMAIN probation
    /\ Len(ledger) >= Len(audit[Caller].offenses)

\* C20: a persistent violation is eventually remediated: with the link
\* guilty on every audit, audits kept being invoked and no storage failure,
\* once the date is at least start date + probation days the next audit
\* executes remediation and deletes the record; no audit before that date
\* remediates, and an indictment (the first, or the one after a remediation)
\* starts a probation at strike count 1 on the day of the audit.
C20_PersistentViolationRemediated ==
    /\ DueForRemediation ~> Remediated
    /\ [][ledger' # ledger =>
            /\ LiveId \in DOMAIN probation
            /\ today - probation[LiveId].start_date >= PROBATION_DAYS]_vars
    /\ [](audit[Caller].result = "indicted" =>
            /\ LiveId \in DOMAIN probation
            /\ probation[LiveId].strike_count = 1
            /\ probation[LiveId].start_date = today)

\* after a remediation the next guilty audit has opened a fresh probation
C20_Witness ==
    /\ ledger # << >>
    /\ audit[Caller].result = "indicted"
    /\ LiveId \in DOMAIN probation
    /\ probation[LiveId].strike_count = 1
    /\ probation[LiveId].start_date >= PROBATION_DAYS

====
